---- MODULE Spec2Model ----
(***************************************************************************)
(* Model of the feed/weight analysis pipeline of this repository:          *)
(*   src/app.py                     load_data() and the Streamlit page     *)
(*   src/analise_consumo_completa.py  the batch script (sections 1-8)      *)
(* One behaviour runs one of the two programs (prog) on one input sheet    *)
(* (cols, raw): the first step is the program's, and sets prog.  Floats    *)
(* are modelled exactly: a finite value is a reduced fraction, and NaN,    *)
(* +inf and -inf are values of their own, produced by the operations that  *)
(* produce them in IEEE arithmetic.                                        *)
(***************************************************************************)
EXTENDS Integers, Sequences, FiniteSets, TLC

\* ------------------------------------------------------------- bounds
\* Rows of the input sheet.
MaxRows == 2
\* Timestamps of the sheet are ticks 0..MaxT.
MaxT == 2
\* Ticks per calendar day (the time-of-day resolution of a timestamp).
TicksPerDay == 2

MaxDay == MaxT \div TicksPerDay

\* ------------------------------------------------------- column names
COCHO == "Consumo de materia natural_Cocho"
BEB == "Consumo_bebedouro"
PESO == "Peso medio"
TEMPO_BEB == "tempo de consumo_bebedouro"
TEMPO_COCHO == "Tempo de consumo_cocho"

cols_numericas == <<COCHO, BEB, PESO>>

tempo_cols == <<TEMPO_BEB, TEMPO_COCHO>>

\* The columns whose cells the model tracks (the two duration columns are
\* tracked by presence only).
ValueCols == {"TAG", "Data", COCHO, BEB, PESO}

AllCols == ValueCols \cup {TEMPO_BEB, TEMPO_COCHO}

\* ------------------------------------------------------------ floats
NaN == [k |-> "nan", n |-> 0, d |-> 1]
Inf == [k |-> "inf", n |-> 0, d |-> 1]
NInf == [k |-> "ninf", n |-> 0, d |-> 1]

Abs(x) == IF x < 0 THEN -x ELSE x

RECURSIVE GCD(_, _)
GCD(a, b) == IF b = 0 THEN a ELSE GCD(b, a % b)

\* The finite float n/d (d > 0), in lowest terms.
Fin(n, d) ==
    LET g == GCD(Abs(n), d)
    IN  [k |-> "fin", n |-> n \div g, d |-> d \div g]

Neg(a) ==
    CASE a.k = "fin" -> Fin(-a.n, a.d)
      [] a.k = "inf" -> NInf
      [] a.k = "ninf" -> Inf
      [] OTHER -> NaN

\* IEEE addition.
Add(a, b) ==
    CASE a.k = "nan" \/ b.k = "nan" -> NaN
      [] a.k = "fin" /\ b.k = "fin" -> Fin(a.n * b.d + b.n * a.d, a.d * b.d)
      [] a.k = "fin" -> b
      [] b.k = "fin" -> a
      [] a.k = b.k -> a
      [] OTHER -> NaN

Sub(a, b) == Add(a, Neg(b))

Sign(a) ==
    CASE a.k = "inf" -> 1
      [] a.k = "ninf" -> -1
      [] a.k = "fin" /\ a.n > 0 -> 1
      [] a.k = "fin" /\ a.n < 0 -> -1
      [] OTHER -> 0

\* IEEE division of a by a finite or NaN divisor b (numpy: x/0 is +-inf,
\* 0/0 is NaN, no exception).
Div(a, b) ==
    CASE a.k = "nan" \/ b.k # "fin" -> NaN
      [] b.n = 0 -> IF Sign(a) > 0 THEN Inf ELSE IF Sign(a) < 0 THEN NInf ELSE NaN
      [] a.k = "fin" ->
           IF b.n > 0 THEN Fin(a.n * b.d, a.d * b.n) ELSE Fin(-(a.n * b.d), a.d * (-b.n))
      [] OTHER -> IF b.n > 0 THEN a ELSE Neg(a)

IsNull(a) == a.k = "nan"

IsInf(a) == a.k \in {"inf", "ninf"}

Lt0(a) == a.k = "ninf" \/ (a.k = "fin" /\ a.n < 0)

\* Series.fillna(v)
FillNa(a, v) == IF IsNull(a) THEN v ELSE a

\* Series.replace([inf, -inf], v)
ReplaceInf(a, v) == IF IsInf(a) THEN v ELSE a

RECURSIVE SumSeq(_)
SumSeq(s) == IF s = <<>> THEN Fin(0, 1) ELSE Add(Head(s), SumSeq(Tail(s)))

\* pandas 'mean': the NaN values are skipped; NaN when none is left.
Mean(s) ==
    LET v == SelectSeq(s, LAMBDA x : ~IsNull(x))
    IN  IF v = <<>> THEN NaN ELSE Div(SumSeq(v), Fin(Len(v), 1))

\* ------------------------------------------------------------- cells
\* A numeric cell of the sheet is its text, a tuple of characters, or the
\* empty (null) cell.
NullCell == <<"NaN">>

\* .astype(str): a null cell reads 'nan', a text cell is itself.
AsStr(c) == IF c = NullCell THEN <<"n", "a", "n">> ELSE c

\* .str.replace(',', '.'): every comma becomes a point.
StrReplaceComma(s) == [i \in 1..Len(s) |-> IF s[i] = "," THEN "." ELSE s[i]]

Digits == {"0", "1", "2", "3", "4", "5", "6", "7", "8", "9"}

DigitVal(c) ==
    CASE c = "0" -> 0 [] c = "1" -> 1 [] c = "2" -> 2 [] c = "3" -> 3
      [] c = "4" -> 4 [] c = "5" -> 5 [] c = "6" -> 6 [] c = "7" -> 7
      [] c = "8" -> 8 [] OTHER -> 9

RECURSIVE IntOf(_)
IntOf(s) == IF s = <<>> THEN 0 ELSE IntOf(SubSeq(s, 1, Len(s) - 1)) * 10 + DigitVal(s[Len(s)])

RECURSIVE Pow10(_)
Pow10(e) == IF e = 0 THEN 1 ELSE 10 * Pow10(e - 1)

\* An unsigned decimal literal: digits with at most one point and at least
\* one digit.
IsDecimal(s) ==
    /\ \A i \in 1..Len(s) : s[i] \in Digits \cup {"."}
    /\ Cardinality({i \in 1..Len(s) : s[i] = "."}) <= 1
    /\ \E i \in 1..Len(s) : s[i] \in Digits

DecimalVal(s) ==
    LET dots == {i \in 1..Len(s) : s[i] = "."}
        frac == IF dots = {} THEN 0 ELSE Len(s) - (CHOOSE i \in dots : TRUE)
    IN  Fin(IntOf(SelectSeq(s, LAMBDA c : c \in Digits)), Pow10(frac))

\* The float a text denotes (Python float() and pandas.to_numeric agree on
\* these texts): [ok |-> FALSE] when it denotes none.
ParseFloat(s) ==
    LET body == IF s # <<>> /\ s[1] \in {"-", "+"} THEN Tail(s) ELSE s
        neg == s # <<>> /\ s[1] = "-"
    IN  CASE body = <<"n", "a", "n">> -> [ok |-> TRUE, v |-> NaN]
          [] body = <<"i", "n", "f">> -> [ok |-> TRUE, v |-> IF neg THEN NInf ELSE Inf]
          [] IsDecimal(body) ->
               [ok |-> TRUE, v |-> IF neg THEN Neg(DecimalVal(body)) ELSE DecimalVal(body)]
          [] OTHER -> [ok |-> FALSE, v |-> NaN]

\* The weight and feed cells of a row, read together: a null weight, a
\* weight that is no number, a zero weight and a positive one.
Measurements ==
    {<<NullCell, <<"1", "0">>>>, <<<<"x">>, <<"1", "2">>>>,
     <<<<"0">>, <<"1", "0">>>>, <<<<"3">>, <<"1", "2">>>>}

\* The water cell of every row: a decimal comma.
BebCells == {<<"1", "2", ",", "5">>}

\* The texts of the sheet's numeric cells.
CellTexts ==
    {m[1] : m \in Measurements} \cup {m[2] : m \in Measurements} \cup BebCells

\* What .astype(str).str.replace(',', '.') and the float parse make of each
\* cell text of the sheet (computed once per text).
ParsedCells == [c \in CellTexts |-> ParseFloat(StrReplaceComma(AsStr(c)))]

\* pd.to_numeric(df[col].astype(str).str.replace(',', '.'), errors='coerce')
\* on one cell: what does not parse becomes NaN.
to_numeric_coerce(c) == ParsedCells[c].v

\* df[col].astype(str).str.replace(',', '.').astype(float) on one cell:
\* astype(float) raises ValueError on a text that does not parse.
astype_float_ok(c) == ParsedCells[c].ok

astype_float(c) == ParsedCells[c].v

\* ------------------------------------------------------------- dates
\* The null timestamp.
NaT == -1

\* A Data cell is a timestamp (a tick 0..MaxT) or a text that is no date.
BadDate == NaT - 1

\* pd.to_datetime(..., dayfirst=True, errors='coerce'): NaT for what is no
\* date.
to_datetime(c) == IF c \in 0..MaxT THEN c ELSE NaT

\* .dt.normalize(): midnight of the same day; NaT stays NaT.
normalize(t) == IF t = NaT THEN NaT ELSE t - (t % TicksPerDay)

\* Timedelta .dt.days: whole days, rounded down.
days(delta) == delta \div TicksPerDay

\* ------------------------------------------------------------ tables
\* A table is a sequence of rows; a row maps column names to values.
Tags == {"A", "B"}

\* Python's order of the TAG strings.
TagRank(t) == IF t = "A" THEN 1 ELSE 2

NumCols == {cols_numericas[i] : i \in 1..Len(cols_numericas)}

Idx(T) == [i \in 1..Len(T) |-> i]

SameKey(a, b) == a["TAG"] = b["TAG"] /\ a["Data"] = b["Data"]

\* Order of sort_values(['TAG', 'Data']).
RowLess(a, b) ==
    \/ TagRank(a["TAG"]) < TagRank(b["TAG"])
    \/ a["TAG"] = b["TAG"] /\ a["Data"] < b["Data"]

InsertSorted(S, r) ==
    LET p == Cardinality({i \in 1..Len(S) : ~RowLess(r, S[i])})
    IN  SubSeq(S, 1, p) \o <<r>> \o SubSeq(S, p + 1, Len(S))

\* df.sort_values(['TAG', 'Data']).reset_index(drop=True): a stable sort.
RECURSIVE SortRows(_)
SortRows(T) ==
    IF T = <<>> THEN <<>>
    ELSE InsertSorted(SortRows(SubSeq(T, 1, Len(T) - 1)), T[Len(T)])

\* to_numeric(..., errors='coerce') on every numeric column present.
ConvertNumericCoerce(T) ==
    [i \in 1..Len(T) |->
        [c \in DOMAIN T[i] |->
            IF c \in NumCols THEN to_numeric_coerce(T[i][c]) ELSE T[i][c]]]

\* astype(float) on every numeric column present.
ConvertNumericFloat(T) ==
    [i \in 1..Len(T) |->
        [c \in DOMAIN T[i] |->
            IF c \in NumCols THEN astype_float(T[i][c]) ELSE T[i][c]]]

\* Whether astype(float) raises ValueError on some cell.
NumericRaises(T) ==
    \E i \in 1..Len(T) : \E c \in DOMAIN T[i] \cap NumCols : ~astype_float_ok(T[i][c])

\* A variant of DropNaData: dropna() over every column, which also drops a
\* row that has a null measurement.
DropNaAny(T) ==
    SelectSeq(T, LAMBDA r : r["Data"] # NaT /\ \A c \in DOMAIN r \cap NumCols : ~IsNull(r[c]))

\* df.dropna(subset=['Data'])
DropNaData(T) == SelectSeq(T, LAMBDA r : r["Data"] # NaT)

\* app.py: to_datetime(...).dt.normalize(), then dropna(subset=['Data']).
ConvertDataNormalize(T) ==
    DropNaData([i \in 1..Len(T) |->
        [c \in DOMAIN T[i] |->
            IF c = "Data" THEN normalize(to_datetime(T[i][c])) ELSE T[i][c]]])

\* The script: to_datetime(...), then dropna(subset=['Data']).
ConvertData(T) ==
    DropNaData([i \in 1..Len(T) |->
        [c \in DOMAIN T[i] |->
            IF c = "Data" THEN to_datetime(T[i][c]) ELSE T[i][c]]])

\* A variant of GroupMinData: the first date of the whole table, whatever
\* the animal.
GroupMinDataGlobal(T, tag) ==
    LET D == {T[i]["Data"] : i \in 1..Len(T)}
    IN  CHOOSE m \in D : \A x \in D : m <= x

\* x.min() of the TAG's group.
GroupMinData(T, tag) ==
    LET D == {T[i]["Data"] : i \in {j \in 1..Len(T) : T[j]["TAG"] = tag}}
    IN  CHOOSE m \in D : \A x \in D : m <= x

\* df.groupby('TAG')['Data'].transform(lambda x: (x - x.min()).dt.days)
DiasPermanencia(T) ==
    [i \in 1..Len(T) |->
        ("dias_permanencia" :> days(T[i]["Data"] - GroupMinData(T, T[i]["TAG"]))) @@ T[i]]

Column(G, c) == [i \in 1..Len(G) |-> G[i][c]]

\* One row of df.groupby(['TAG', 'Data']).agg({...}): the mean of the
\* numeric columns, the first dias_permanencia.
AggRow(G) ==
    [c \in {"TAG", "Data", COCHO, BEB, PESO, "dias_permanencia"} |->
        IF c \in {"TAG", "Data", "dias_permanencia"} THEN G[1][c] ELSE Mean(Column(G, c))]

\* df.groupby(['TAG', 'Data']).agg({...}).reset_index(): one row per key, in
\* key order.
Consolidate(T) ==
    LET first == SelectSeq(Idx(T), LAMBDA i : \A j \in 1..(i - 1) : ~SameKey(T[j], T[i]))
    IN  SortRows([n \in 1..Len(first) |->
            AggRow(SelectSeq(T, LAMBDA r : SameKey(r, T[first[n]])))])

\* df.drop_duplicates(subset=['TAG', 'Data'], keep='first')
DropDuplicates(T) ==
    LET keep == SelectSeq(Idx(T), LAMBDA i : \A j \in 1..(i - 1) : ~SameKey(T[j], T[i]))
    IN  [n \in 1..Len(keep) |-> T[keep[n]]]

\* The row before row i in its TAG group (0: none).
Prev(T, i) ==
    LET P == {j \in 1..(i - 1) : T[j]["TAG"] = T[i]["TAG"]}
    IN  IF P = {} THEN 0 ELSE CHOOSE j \in P : \A x \in P : x <= j

\* df.groupby('TAG')['Peso medio'].shift(1)
peso_anterior(T, i) == IF Prev(T, i) = 0 THEN NaN ELSE T[Prev(T, i)][PESO]

\* df.groupby('TAG')['dias_permanencia'].diff()
dias_diff(T, i) ==
    IF Prev(T, i) = 0 THEN NaN
    ELSE Fin(T[i]["dias_permanencia"] - T[Prev(T, i)]["dias_permanencia"], 1)

\* app.py: (peso - peso_anterior) / dias_diff.fillna(1), then fillna(0) and
\* replace([inf, -inf], 0).
GPDGuarded(T, i) ==
    ReplaceInf(
        FillNa(Div(Sub(T[i][PESO], peso_anterior(T, i)), FillNa(dias_diff(T, i), Fin(1, 1))),
               Fin(0, 1)),
        Fin(0, 1))

\* The script: (peso - peso_anterior) / dias_diff, then fillna(0).
GPDPlain(T, i) ==
    FillNa(Div(Sub(T[i][PESO], peso_anterior(T, i)), dias_diff(T, i)), Fin(0, 1))

\* Section "GPD" of load_data (the else branch: GPD = 0 without a weight
\* column).
ComputeGPDApp(T, cs) ==
    [i \in 1..Len(T) |->
        IF PESO \in cs
        THEN ("peso_anterior" :> peso_anterior(T, i)) @@ ("dias_diff" :> dias_diff(T, i))
             @@ ("GPD" :> GPDGuarded(T, i)) @@ T[i]
        ELSE ("GPD" :> Fin(0, 1)) @@ T[i]]

\* Section 6 of the script.
ComputeGPDScript(T, cs) ==
    [i \in 1..Len(T) |->
        IF PESO \in cs
        THEN ("peso_anterior" :> peso_anterior(T, i)) @@ ("dias_diff" :> dias_diff(T, i))
             @@ ("GPD" :> GPDPlain(T, i)) @@ T[i]
        ELSE ("GPD" :> Fin(0, 1)) @@ T[i]]

\* First appearances, in order: Series.unique().
UniqueTags(T) ==
    LET first == SelectSeq(Idx(T), LAMBDA i : \A j \in 1..(i - 1) : T[j]["TAG"] # T[i]["TAG"])
    IN  [n \in 1..Len(first) |-> T[first[n]]["TAG"]]

Range(s) == {s[i] : i \in 1..Len(s)}

\* The group keys of groupby('TAG'), in key order.
GroupTags(T) ==
    LET S == Range(UniqueTags(T))
    IN  IF S = {} THEN <<>>
        ELSE IF Cardinality(S) = 1 THEN <<CHOOSE t \in S : TRUE>>
        ELSE <<"A", "B">>

\* One row of a summary: the TAG and the mean of each column in cs over the
\* TAG's rows of T.
MeanRow(T, tag, cs) ==
    LET G == SelectSeq(T, LAMBDA r : r["TAG"] = tag)
    IN  [c \in cs \cup {"TAG"} |-> IF c = "TAG" THEN tag ELSE Mean(Column(G, c))]

\* ------------------------------------------------------------ app.py
NoErr == [type |-> "none", what |-> "none", cols |-> {}]

\* An uncaught exception: its type, what raised it (a missing column, a
\* numeric cell, an empty table) and the columns its message names.
Raise(type, what, cs) ==
    [st |-> "error", err |-> [type |-> type, what |-> what, cols |-> cs], df |-> <<>>]

\* The source columns that the agg dictionary of load_data names.
AggSourceCols == {COCHO, BEB, PESO, TEMPO_BEB, TEMPO_COCHO}

\* A variant of load_data that does not look for the TAG column: without it
\* the rows are returned as converted.
load_data_no_tag_check(cs, T) ==
    IF "Data" \notin cs THEN Raise("ValueError", "column", {"Data"})
    ELSE IF "TAG" \notin cs
         THEN [st |-> "loaded", err |-> NoErr,
               df |-> ConvertDataNormalize(ConvertNumericCoerce(T))]
    ELSE IF ~(AggSourceCols \subseteq cs) THEN Raise("KeyError", "column", AggSourceCols \ cs)
    ELSE [st |-> "loaded", err |-> NoErr,
          df |-> ComputeGPDApp(
                   DropDuplicates(Consolidate(DiasPermanencia(SortRows(
                     ConvertDataNormalize(ConvertNumericCoerce(T)))))),
                   cs)]

\* load_data(): the table it returns, or the exception it raises.
load_data(cs, T) ==
    IF "Data" \notin cs THEN Raise("ValueError", "column", {"Data"})
    ELSE IF "TAG" \notin cs THEN Raise("ValueError", "column", {"TAG"})
    ELSE IF ~(AggSourceCols \subseteq cs) THEN Raise("KeyError", "column", AggSourceCols \ cs)
    ELSE [st |-> "loaded", err |-> NoErr,
          df |-> ComputeGPDApp(
                   DropDuplicates(Consolidate(DiasPermanencia(SortRows(
                     ConvertDataNormalize(ConvertNumericCoerce(T)))))),
                   cs)]

\* A variant of df_filtered whose window excludes its last day.
df_filtered_open_end(T, start_date, end_date) ==
    SelectSeq(T, LAMBDA r : r["Data"] >= start_date /\ r["Data"] < end_date)

\* df[(df['Data'] >= start_date) & (df['Data'] <= end_date)]
df_filtered(T, start_date, end_date) ==
    SelectSeq(T, LAMBDA r : r["Data"] >= start_date /\ r["Data"] <= end_date)

\* df_filtered[df_filtered['TAG'].isin(selected_tags)]
df_selected(T, start_date, end_date, selected_tags) ==
    SelectSeq(df_filtered(T, start_date, end_date), LAMBDA r : r["TAG"] \in selected_tags)

colunas_analise == {COCHO, BEB, PESO, "GPD"}

\* The 'Media' row of df_selected.groupby('TAG')[colunas_analise]: one row
\* per TAG that has rows in df_selected.
resumo_app(S) == [n \in 1..Len(GroupTags(S)) |-> MeanRow(S, GroupTags(S)[n], colunas_analise)]

\* df_selected[df_selected['GPD'] < 0]['TAG'].unique()
tags_gpd_negativo(S) == UniqueTags(SelectSeq(S, LAMBDA r : Lt0(r["GPD"])))

\* data_min, data_max
data_min(T) == CHOOSE m \in {T[i]["Data"] : i \in 1..Len(T)} : \A i \in 1..Len(T) : m <= T[i]["Data"]

data_max(T) == CHOOSE m \in {T[i]["Data"] : i \in 1..Len(T)} : \A i \in 1..Len(T) : m >= T[i]["Data"]

\* pd.to_datetime of a date of st.date_input: midnight of that day.
DateTick(day) == day * TicksPerDay

\* ------------------------------------------------------- the script
\* 2023-05-01 (day 1 of the model's calendar), as a timestamp.
data_inicio == DateTick(1)

\* The numeric columns whose absence section 2 reports before it ends: all
\* of them, or those before the column whose conversion raises.
NumericNotices(cs, T) ==
    LET bad == {k \in 1..Len(cols_numericas) :
                  /\ cols_numericas[k] \in cs
                  /\ \E i \in 1..Len(T) : ~astype_float_ok(T[i][cols_numericas[k]])}
        stop == IF bad = {} THEN Len(cols_numericas) + 1
                ELSE CHOOSE k \in bad : \A x \in bad : k <= x
    IN  {cols_numericas[k] : k \in {j \in 1..Len(cols_numericas) : j < stop}} \ cs

\* Sections 2 to 6: the table, the notices printed, or the exception.
analise(cs, T) ==
    IF NumericRaises(T)
    THEN Raise("ValueError", "numeric", {}) @@ [notices |-> NumericNotices(cs, T)]
    ELSE IF "Data" \notin cs
    THEN Raise("KeyError", "column", {"Data"}) @@ [notices |-> NumCols \ cs]
    ELSE IF "TAG" \notin cs
    THEN Raise("KeyError", "column", {"TAG"}) @@ [notices |-> (NumCols \cup Range(tempo_cols)) \ cs]
    ELSE [st |-> "assembled", err |-> NoErr,
          notices |-> (NumCols \cup Range(tempo_cols)) \ cs,
          df |-> ComputeGPDScript(
                   DiasPermanencia(SortRows(ConvertData(ConvertNumericFloat(T)))), cs)]

\* A variant of FilterInicio that excludes the records of data_inicio itself.
FilterInicioAfter(T) == SelectSeq(T, LAMBDA r : r["Data"] > data_inicio)

\* df[df['Data'] >= data_inicio]
FilterInicio(T) == SelectSeq(T, LAMBDA r : r["Data"] >= data_inicio)

\* The columns of colunas_resumo that the table has.
colunas_existentes(cs) == (cs \cap {COCHO, BEB, PESO}) \cup {"GPD"}

\* df.groupby('TAG').agg(mean): one row per TAG that has rows in T.
resumo_script(T, cs) ==
    [n \in 1..Len(GroupTags(T)) |-> MeanRow(T, GroupTags(T)[n], colunas_existentes(cs))]

\* ------------------------------------------------------------- state
VARIABLES prog, cols, raw, st, err, df, notices, win, resumo, alert

vars == <<prog, cols, raw, st, err, df, notices, win, resumo, alert>>

NoWin == [start |-> NaT, end |-> NaT, selected |-> {}]

DataCells == (0..MaxT) \cup {BadDate}

Restrict(f, S) == [x \in S |-> f[x]]

FullRow(t, d, c, b, p) ==
    ("TAG" :> t) @@ ("Data" :> d) @@ (COCHO :> c) @@ (BEB :> b) @@ (PESO :> p)

\* The rows a sheet with the columns cs can hold.
RowsOver(cs) ==
    {Restrict(FullRow(t, d, m[2], b, m[1]), cs \cap ValueCols) :
        t \in Tags, d \in DataCells, m \in Measurements, b \in BebCells}

\* The sheets read: all the columns, or all but one.
ColVariants == {AllCols} \cup {AllCols \ {c} : c \in {"TAG", "Data", BEB, PESO}}

Init ==
    /\ prog = "none"
    /\ cols \in ColVariants
    /\ raw \in UNION {[1..n -> RowsOver(cols)] : n \in 1..MaxRows}
    /\ st = "start"
    /\ err = NoErr
    /\ df = <<>>
    /\ notices = {}
    /\ win = NoWin
    /\ resumo = <<>>
    /\ alert = <<>>

\* app.py, lines 19-110: the body of load_data() on the sheet, up to its
\* return; an exception is shown and the run stopped.
LoadData ==
    /\ prog = "none" /\ st = "start"
    /\ prog' = "app"
    /\ LET r == load_data(cols, raw)
       IN  /\ st' = r.st
           /\ err' = r.err
           /\ df' = r.df
    /\ UNCHANGED <<cols, raw, notices, win, resumo, alert>>

\* app.py, lines 100-120: load_data() returns (the sheet it read was its
\* local), an empty table stops the page, else the sidebar is drawn.
PageStart ==
    /\ prog = "app" /\ st = "loaded"
    /\ st' = IF df = <<>> THEN "stopped" ELSE "ready"
    /\ raw' = <<>>
    /\ UNCHANGED <<prog, cols, err, df, notices, win, resumo, alert>>

\* A variant of Query in which line 129 rebinds df itself to the rows of the
\* window, so that the table narrows with each page drawn.
QueryInPlace ==
    /\ prog = "app" /\ st = "ready"
    /\ UNCHANGED <<prog, cols, raw, err, notices>>
    /\ \E ndates \in {1, 2}, d1 \in 0..MaxDay, d2 \in 0..MaxDay :
         /\ d1 <= d2
         /\ ndates = 1 => d1 = d2
         /\ LET start_date == IF ndates = 2 THEN DateTick(d1) ELSE data_min(df)
                end_date == IF ndates = 2 THEN DateTick(d2) ELSE data_max(df)
                tags == Range(UniqueTags(df_filtered(df, start_date, end_date)))
            IN  /\ df' = df_filtered(df, start_date, end_date)
                /\ \E selected_tags \in SUBSET tags :
                     IF selected_tags = {}
                     THEN st' = "stopped" /\ win' = NoWin /\ resumo' = <<>> /\ alert' = <<>>
                     ELSE LET S == df_selected(df, start_date, end_date, selected_tags)
                          IN  /\ st' = "shown"
                              /\ win' = [start |-> start_date, end |-> end_date,
                                         selected |-> selected_tags]
                              /\ resumo' = resumo_app(S)
                              /\ alert' = tags_gpd_negativo(S)

\* app.py, lines 122-289: the page drawn for the sidebar's date range (two
\* days, or one day only: ndates = 1) and TAGs.
Query ==
    /\ prog = "app" /\ st = "ready"
    /\ UNCHANGED <<prog, cols, raw, err, df, notices>>
    /\ \E ndates \in {1, 2}, d1 \in 0..MaxDay, d2 \in 0..MaxDay :
         /\ d1 <= d2
         /\ ndates = 1 => d1 = d2
         /\ LET start_date == IF ndates = 2 THEN DateTick(d1) ELSE data_min(df)
                end_date == IF ndates = 2 THEN DateTick(d2) ELSE data_max(df)
                tags == Range(UniqueTags(df_filtered(df, start_date, end_date)))
            IN  \E selected_tags \in SUBSET tags :
                  IF selected_tags = {}
                  THEN st' = "stopped" /\ win' = NoWin /\ resumo' = <<>> /\ alert' = <<>>
                  ELSE LET S == df_selected(df, start_date, end_date, selected_tags)
                       IN  /\ st' = "shown"
                           /\ win' = [start |-> start_date, end |-> end_date,
                                      selected |-> selected_tags]
                           /\ resumo' = resumo_app(S)
                           /\ alert' = tags_gpd_negativo(S)

\* A widget change reruns the page from its first line; load_data() is
\* cached (st.cache_data), so the rerun starts from the same table.
Rerun ==
    /\ prog = "app" /\ st \in {"shown", "stopped"} /\ df # <<>>
    /\ st' = "ready" /\ win' = NoWin /\ resumo' = <<>> /\ alert' = <<>>
    /\ UNCHANGED <<prog, cols, raw, err, df, notices>>

\* The script, sections 1-6.
Analise ==
    /\ prog = "none" /\ st = "start"
    /\ prog' = "script"
    /\ LET r == analise(cols, raw)
       IN  /\ st' = r.st
           /\ err' = r.err
           /\ df' = r.df
           /\ notices' = r.notices
    /\ UNCHANGED <<cols, raw, win, resumo, alert>>

\* The script, sections 7-8: the date filter, the ValueError on an empty
\* table, the summary.
Resumo ==
    /\ prog = "script" /\ st = "assembled"
    /\ df' = FilterInicio(df)
    /\ IF df' = <<>>
       THEN st' = "error" /\ err' = [type |-> "ValueError", what |-> "empty", cols |-> {}] /\ resumo' = <<>>
       ELSE st' = "summarised" /\ err' = err /\ resumo' = resumo_script(df', cols)
    /\ UNCHANGED <<prog, cols, raw, notices, win, alert>>

Next == LoadData \/ PageStart \/ Query \/ Rerun \/ Analise \/ Resumo

Spec == Init /\ [][Next]_vars

\* ------------------------------------------------------------ claims
\* The assembled table is in df: load_data() has built it, or the script
\* has ended section 6.
Assembled ==
    \/ prog = "app" /\ st \in {"loaded", "ready", "shown", "stopped"}
    \/ prog = "script" /\ st = "assembled"

\* The same, with the sheet it was assembled from still in raw.
AssembledFromRaw ==
    \/ prog = "app" /\ st = "loaded"
    \/ prog = "script" /\ st = "assembled"

\* The rows of the sheet whose date parses, and the calendar day of one.
ValidRaw == {i \in 1..Len(raw) : "Data" \in cols /\ raw[i]["Data"] \in 0..MaxT}

DayOf(t) == t \div TicksPerDay

Zero == [k |-> "fin", n |-> 0, d |-> 1]

\* C1: every record of the assembled table has a finite daily gain (GPD):
\* never +inf, -inf or NaN, whatever the sheet holds.
C1_GainFinite == Assembled => \A i \in 1..Len(df) : df[i]["GPD"].k = "fin"

\* C2: per animal, dias_permanencia in table order (which is timestamp
\* order) is non-decreasing, 0 at the animal's first record, never negative,
\* and the whole days between the record's date and the animal's earliest
\* date in the table.
C2_Tenure ==
    Assembled =>
        \A i \in 1..Len(df) :
            LET same == {j \in 1..Len(df) : df[j]["TAG"] = df[i]["TAG"]}
                dias == df[i]["dias_permanencia"]
            IN  /\ dias >= 0
                /\ \E e \in same :
                     /\ \A j \in same : df[e]["Data"] <= df[j]["Data"]
                     /\ dias = (df[i]["Data"] - df[e]["Data"]) \div TicksPerDay
                /\ \A j \in same : j < i =>
                     /\ df[j]["Data"] <= df[i]["Data"]
                     /\ df[j]["dias_permanencia"] <= dias
                /\ (\A j \in same : j >= i) => dias = 0

\* C2's case: an animal with a record on its first day and a later record
\* on a later day.
C2_Witness ==
    /\ Assembled
    /\ \E i, j \in 1..Len(df) :
         /\ i < j
         /\ df[i]["TAG"] = df[j]["TAG"]
         /\ df[i]["dias_permanencia"] = 0
         /\ df[j]["dias_permanencia"] > 0

\* C3: every (animal, calendar day) of the date-valid rows of the sheet is in
\* the assembled table exactly once, and each numeric field of that record is
\* the mean of the field over the sheet's rows of the pair.
C3_OneMeanRecordPerKey ==
    AssembledFromRaw =>
        \A r \in ValidRaw :
            LET grp == {q \in ValidRaw :
                          /\ raw[q]["TAG"] = raw[r]["TAG"]
                          /\ DayOf(raw[q]["Data"]) = DayOf(raw[r]["Data"])}
                hit == {i \in 1..Len(df) :
                          /\ df[i]["TAG"] = raw[r]["TAG"]
                          /\ DayOf(df[i]["Data"]) = DayOf(raw[r]["Data"])}
                vals(c) == [n \in 1..Len(raw) |->
                              IF n \in grp THEN to_numeric_coerce(raw[n][c]) ELSE NaN]
            IN  /\ Cardinality(hit) = 1
                /\ \A i \in hit : \A c \in NumCols \cap cols : df[i][c] = Mean(vals(c))

\* C4: an animal's first record has GPD 0; a later record has
\* (weight - previous weight) / (tenure - previous tenure) against the record
\* before it of the same animal, and 0 when that denominator is 0 or one of
\* the two weights is null.
C4_Gain ==
    (Assembled /\ PESO \in cols) =>
        \A i \in 1..Len(df) :
            LET P == {j \in 1..(i - 1) : df[j]["TAG"] = df[i]["TAG"]}
            IN  IF P = {} THEN df[i]["GPD"] = Zero
                ELSE \E p \in P :
                       /\ \A j \in P : j <= p
                       /\ LET den == df[i]["dias_permanencia"] - df[p]["dias_permanencia"]
                              w == df[i][PESO]
                              w0 == df[p][PESO]
                          IN  IF den = 0 \/ w.k = "nan" \/ w0.k = "nan"
                              THEN df[i]["GPD"] = Zero
                              ELSE /\ df[i]["GPD"].k = "fin"
                                   /\ df[i]["GPD"].n * w.d * w0.d * den
                                        = (w.n * w0.d - w0.n * w.d) * df[i]["GPD"].d

C5_WitnessOutside ==
    /\ prog = "app" /\ st = "shown"
    /\ alert = <<>>
    /\ \E i \in 1..Len(df) :
         /\ df[i]["TAG"] \in win.selected
         /\ df[i]["Data"] > win.end
         /\ df[i]["GPD"].n < 0
\* The TAGs of the sheet's date-valid rows, and those with such a row in the
\* script's window (from data_inicio on).
ScriptIncluded == {raw[i]["TAG"] : i \in ValidRaw}

ScriptInWindow == {raw[i]["TAG"] : i \in {j \in ValidRaw : raw[j]["Data"] >= data_inicio}}

ResumoTags == {resumo[n]["TAG"] : n \in 1..Len(resumo)}

\* C6, as claimed: an included animal with no record inside the window still
\* has a row in the summary, with every aggregate null, and the aggregation
\* does not fail.
C6_NullRowForEmptyAnimal ==
    /\ (/\ prog = "script"
        /\ st \in {"summarised", "error"}
        /\ err.what \in {"none", "empty"}
        /\ ScriptIncluded \ ScriptInWindow # {}) =>
          /\ st = "summarised"
          /\ \A t \in ScriptIncluded \ ScriptInWindow :
                \E n \in 1..Len(resumo) :
                    /\ resumo[n]["TAG"] = t
                    /\ \A c \in DOMAIN resumo[n] \ {"TAG"} : resumo[n][c].k = "nan"
    /\ (prog = "app" /\ st = "shown") =>
          \A t \in win.selected :
              \E n \in 1..Len(resumo) : resumo[n]["TAG"] = t

\* C6, amended: the summary has one row for each included animal that has a
\* record inside the window and no row for any other animal; the script
\* raises ValueError exactly when no record at all is inside its window.
C6_RowIffInWindow ==
    /\ (prog = "script" /\ st = "summarised") =>
          /\ ResumoTags = ScriptInWindow
          /\ ScriptInWindow # {}
          /\ Len(resumo) = Cardinality(ResumoTags)
    /\ (prog = "script" /\ st = "error" /\ err.what = "empty") =>
          /\ ScriptInWindow = {}
          /\ resumo = <<>>
    /\ (prog = "app" /\ st = "shown") =>
          /\ ResumoTags =
               {t \in win.selected :
                  \E i \in 1..Len(df) :
                      /\ df[i]["TAG"] = t
                      /\ win.start <= df[i]["Data"] /\ df[i]["Data"] <= win.end}
          /\ Len(resumo) = Cardinality(ResumoTags)

\* C6's case: the script has summarised a sheet with an animal whose records
\* all lie before the window.
C6_Witness ==
    /\ prog = "script" /\ st = "summarised"
    /\ ScriptIncluded \ ScriptInWindow # {}

\* C7: without the water column (TAG and Data present) the run is not
\* aborted, a notice names the column, and no record has a water value.
C7_MissingOptionalTolerated ==
    (BEB \notin cols /\ st # "start") =>
        /\ ~(st = "error" /\ err.what = "column")
        /\ BEB \in notices
        /\ \A i \in 1..Len(df) : BEB \in DOMAIN df[i] => df[i][BEB].k = "nan"

\* C8: a decimal comma reads as a decimal point ("12,5" is 12.5), and a cell
\* that is no number gives a null in that field of that record only: no
\* error, and the record is kept with its other fields.
C8_UnparseableIsNull ==
    /\ (AssembledFromRaw /\ BEB \in cols) =>
          \A i \in 1..Len(df) : df[i][BEB] = [k |-> "fin", n |-> 25, d |-> 2]
    /\ (AllCols \subseteq cols /\ st # "start"
          /\ \E i \in 1..Len(raw) : raw[i][PESO] = <<"x">>) =>
          /\ ~(st = "error" /\ err.what = "numeric")
          /\ AssembledFromRaw =>
                \A r \in ValidRaw :
                    raw[r][PESO] = <<"x">> =>
                        \E i \in 1..Len(df) :
                            /\ df[i]["TAG"] = raw[r]["TAG"]
                            /\ DayOf(df[i]["Data"]) = DayOf(raw[r]["Data"])
                            /\ df[i][COCHO].k = "fin"
                            /\ (\A q \in ValidRaw :
                                  (raw[q]["TAG"] = raw[r]["TAG"]
                                     /\ DayOf(raw[q]["Data"]) = DayOf(raw[r]["Data"]))
                                  => q = r)
                               => df[i][PESO].k = "nan"

\* C9: without the TAG column the run ends in a named error that names TAG
\* (unless a cell that is no number has stopped the script before), and there
\* is no table, no summary and no alert.
C9_MissingTagFatal ==
    ("TAG" \notin cols /\ st # "start") =>
        /\ st = "error"
        /\ err.type \in {"ValueError", "KeyError"}
        /\ err.what = "column" => err.cols = {"TAG"}
        /\ prog = "app" => err.what = "column"
        /\ df = <<>> /\ resumo = <<>> /\ alert = <<>>

\* C9's case: a sheet with rows and no TAG column has been run, and the
\* error names TAG.
C9_Witness ==
    /\ "TAG" \notin cols
    /\ raw # <<>>
    /\ st = "error"
    /\ err.cols = {"TAG"}

\* C10: no record of the assembled table has a null timestamp, and the date
\* step drops exactly the rows whose date does not parse: the script's table
\* has one record per date-valid row of the sheet, with that row's TAG and
\* timestamp, and app.py's table has exactly the (TAG, day) pairs of the
\* date-valid rows.
C10_DateDrop ==
    /\ Assembled => \A i \in 1..Len(df) : df[i]["Data"] \in 0..MaxT
    /\ (prog = "script" /\ st = "assembled") =>
          /\ Len(df) = Cardinality(ValidRaw)
          /\ \A r \in ValidRaw :
                Cardinality({i \in 1..Len(df) :
                               /\ df[i]["TAG"] = raw[r]["TAG"]
                               /\ df[i]["Data"] = raw[r]["Data"]})
                  = Cardinality({q \in ValidRaw :
                                   /\ raw[q]["TAG"] = raw[r]["TAG"]
                                   /\ raw[q]["Data"] = raw[r]["Data"]})
    /\ (prog = "app" /\ st = "loaded") =>
          {<<df[i]["TAG"], df[i]["Data"]>> : i \in 1..Len(df)}
            = {<<raw[r]["TAG"], DayOf(raw[r]["Data"]) * TicksPerDay>> : r \in ValidRaw}

\* C10's case: the sheet holds a row whose date does not parse and a
\* date-valid row with a null weight, and the table holds the latter.
C10_Witness ==
    /\ AssembledFromRaw
    /\ PESO \in cols
    /\ \E i \in 1..Len(raw) : raw[i]["Data"] = BadDate
    /\ \E r \in ValidRaw : raw[r][PESO] = NullCell
    /\ df # <<>>

\* The step taken from a state in which app.py holds its assembled table.
AppStep == prog = "app" /\ st \in {"loaded", "ready", "shown", "stopped"}

====
